---- MODULE Spec2Model ----
(***************************************************************************)
(* Model of the Socket.IO game server (src/server.js): the GameManager     *)
(* player registry, the connection / disconnect lifecycle, the per-event   *)
(* handlers and the heartbeat timer.  One action is one event handled to   *)
(* completion by the single-threaded Node.js event loop.                   *)
(***************************************************************************)
EXTENDS Integers, Sequences, FiniteSets

(* ---------------------------- bounds ----------------------------------- *)

\* Connections accepted over the lifetime of the process (main specification).
MaxConns == 2

\* Connections accepted in the specification of the registry's values.
ValueConns == 1

\* Connections accepted in the leaderboard specification.
LBConns == 3

\* Socket ids are opaque unique tokens drawn by the transport; the k-th
\* accepted connection is given the k-th name.
IdNames == <<"c1", "c2", "c3", "c4", "c5">>

Ids == {IdNames[i] : i \in 1..5}

(* ------------------------ JavaScript values ---------------------------- *)

Num(n) == [t |-> "num", v |-> n]
Str(n) == [t |-> "str", v |-> n]      \* v = 0: the empty string, v = 1: "abc"
PosInf == [t |-> "inf", v |-> 1]
NegInf == [t |-> "inf", v |-> -1]
NaN    == [t |-> "nan", v |-> 0]
Null   == [t |-> "null", v |-> 0]
Undef  == [t |-> "undefined", v |-> 0]

\* typeof v === 'number'
TypeofNumber(v) == v.t \in {"num", "inf", "nan"}

\* typeof v === 'string'
TypeofString(v) == v.t = "str"

\* ToBoolean(v): the operand of `if (v)` and of `v || 0`
Truthy(v) ==
  CASE v.t = "num" -> v.v # 0
    [] v.t = "str" -> v.v # 0
    [] v.t = "inf" -> TRUE
    [] OTHER -> FALSE

\* ToNumber(v)
ToNumber(v) ==
  CASE v.t \in {"num", "inf", "nan"} -> v
    [] v.t = "null" -> Num(0)
    [] v.t = "str" /\ v.v = 0 -> Num(0)
    [] OTHER -> NaN

\* a - b on JavaScript values
Minus(a, b) ==
  LET x == ToNumber(a)
      y == ToNumber(b)
  IN  CASE x.t = "nan" \/ y.t = "nan" -> NaN
        [] x.t = "inf" /\ y.t = "inf" -> IF x.v = y.v THEN NaN ELSE x
        [] x.t = "inf" -> x
        [] y.t = "inf" -> [t |-> "inf", v |-> 0 - y.v]
        [] OTHER -> Num(x.v - y.v)

\* No room joined yet: the player's room field is null.
NullRoom == "<null>"

(* ------------------------------ state ---------------------------------- *)

VARIABLES
  nextId,    \* number of connections the transport has accepted so far
  open,      \* ids of the sockets that are connected
  players,   \* gameManager.players: socket id -> player object
  order,     \* Object.keys(gameManager.players): the keys in insertion order
  rooms,     \* the adapter's rooms of each socket (socket.rooms)
  last,      \* the event handled last: its name, its socket and its payload
  sent,      \* the emissions of the event handled last, in emission order
  firstMsg,  \* the first event each client received on its socket
  held       \* what a caller that kept the result of getPlayers() was given

vars == <<nextId, open, players, order, rooms, last, sent, firstMsg, held>>

(* --------------------------- GameManager ------------------------------- *)

\* addPlayer(id): this.players[id] = { x: 0, y: 0, score: 0, room: null }
addPlayer(pl, id) ==
  [k \in DOMAIN pl \cup {id} |->
     IF k = id THEN [x |-> Num(0), y |-> Num(0), score |-> Num(0), room |-> NullRoom]
     ELSE pl[k]]

\* Object.keys after this.players[id] = ...: a new key goes last, an
\* existing key keeps its place.
addKey(ord, id) ==
  IF \E i \in 1..Len(ord) : ord[i] = id THEN ord ELSE Append(ord, id)

\* Mutant of updatePlayer: the fields are written to every player.
updatePlayerAll(pl, id, data) ==
  [k \in DOMAIN pl |->
     [x     |-> IF data.x # Undef THEN data.x ELSE pl[k].x,
      y     |-> IF data.y # Undef THEN data.y ELSE pl[k].y,
      score |-> IF data.score # Undef THEN data.score ELSE pl[k].score,
      room  |-> pl[k].room]]

\* Mutant of updatePlayer: an id that is not in the registry is given an entry.
updatePlayerUpsert(pl, id, data) ==
  IF id \in DOMAIN pl
  THEN [pl EXCEPT ![id] =
          [x     |-> IF data.x # Undef THEN data.x ELSE @.x,
           y     |-> IF data.y # Undef THEN data.y ELSE @.y,
           score |-> IF data.score # Undef THEN data.score ELSE @.score,
           room  |-> @.room]]
  ELSE addPlayer(pl, id)

\* Mutant of updatePlayer: the player object is replaced by the payload,
\* a field the payload lacks falling back to its default.
updatePlayerReplace(pl, id, data) ==
  IF id \in DOMAIN pl
  THEN [pl EXCEPT ![id] =
          [x     |-> IF data.x # Undef THEN data.x ELSE Num(0),
           y     |-> IF data.y # Undef THEN data.y ELSE Num(0),
           score |-> IF data.score # Undef THEN data.score ELSE Num(0),
           room  |-> @.room]]
  ELSE pl

\* updatePlayer(id, data), data an object
updatePlayer(pl, id, data) ==
  IF id \in DOMAIN pl
  THEN [pl EXCEPT ![id] =
          [x     |-> IF data.x # Undef THEN data.x ELSE @.x,
           y     |-> IF data.y # Undef THEN data.y ELSE @.y,
           score |-> IF data.score # Undef THEN data.score ELSE @.score,
           room  |-> @.room]]
  ELSE pl

\* Mutant of removePlayer: the entry is never deleted.
removePlayerKeep(pl, id) == pl

\* removePlayer(id): delete this.players[id]
removePlayer(pl, id) ==
  IF id \in DOMAIN pl THEN [k \in DOMAIN pl \ {id} |-> pl[k]] ELSE pl

\* Object.keys after delete this.players[id]
removeKey(ord, id) == SelectSeq(ord, LAMBDA k : k # id)

\* getPlayers(): return this.players
getPlayers(pl) == pl

(* ----------------- Array.prototype.sort (Node.js / V8) ----------------- *)

\* comparefn of getLeaderboard: (a, b) => b.score - a.score
comparefn(a, b) == Minus(b.score, a.score)

\* The order the sort reads off comparefn(a, b): its sign, NaN read as 0.
Compare(a, b) ==
  LET d == comparefn(a, b)
  IN  CASE d.t = "inf" -> d.v
        [] d.t = "num" /\ d.v < 0 -> -1
        [] d.t = "num" /\ d.v > 0 -> 1
        [] OTHER -> 0

\* Length of the run that starts the array: elements are taken while they
\* keep the direction of the first two (strictly descending, or not).
RECURSIVE RunLength(_, _, _)
RunLength(arr, idx, desc) ==
  IF idx > Len(arr) THEN Len(arr)
  ELSE LET o == Compare(arr[idx], arr[idx - 1])
       IN  IF (desc /\ o >= 0) \/ (~desc /\ o < 0) THEN idx - 1
           ELSE RunLength(arr, idx + 1, desc)

\* The array with its first n elements reversed.
ReverseRange(arr, n) ==
  [i \in 1..Len(arr) |-> IF i <= n THEN arr[n + 1 - i] ELSE arr[i]]

\* Binary search for the place of pivot in arr[left .. right-1].
RECURSIVE InsertionPoint(_, _, _, _)
InsertionPoint(arr, pivot, left, right) ==
  IF left >= right THEN left
  ELSE LET mid == left + ((right - left) \div 2)
       IN  IF Compare(pivot, arr[mid]) < 0
           THEN InsertionPoint(arr, pivot, left, mid)
           ELSE InsertionPoint(arr, pivot, mid + 1, right)

\* Binary insertion sort of arr[start ..] into the sorted arr[1 .. start-1].
RECURSIVE BinaryInsertionSort(_, _)
BinaryInsertionSort(arr, start) ==
  IF start > Len(arr) THEN arr
  ELSE LET pivot == arr[start]
           at    == InsertionPoint(arr, pivot, 1, start)
           moved == [i \in 1..Len(arr) |->
                       IF i < at \/ i > start THEN arr[i]
                       ELSE IF i = at THEN pivot
                       ELSE arr[i - 1]]
       IN  BinaryInsertionSort(moved, start + 1)

\* arr.sort(comparefn) for an array shorter than a merge run: the initial
\* run is found (and reversed when descending), the rest is inserted.
Sort(arr) ==
  IF Len(arr) < 2 THEN arr
  ELSE LET desc == Compare(arr[2], arr[1]) < 0
           n    == RunLength(arr, 3, desc)
           run  == IF desc THEN ReverseRange(arr, n) ELSE arr
       IN  BinaryInsertionSort(run, n + 1)

\* getLeaderboard(): one { id, score: players[id].score || 0 } per key, sorted
getLeaderboard(pl, ord) ==
  Sort([i \in 1..Len(ord) |->
          [id |-> ord[i],
           score |-> IF Truthy(pl[ord[i]].score) THEN pl[ord[i]].score ELSE Num(0)]])

\* broadcastState(io): io.emit('player_update', ...); io.emit('leaderboard_update', ...)
broadcastState(pl, ord, conns) ==
  << [ev |-> "player_update", to |-> conns, data |-> getPlayers(pl)],
     [ev |-> "leaderboard_update", to |-> conns, data |-> getLeaderboard(pl, ord)] >>

(* ------------------------------ inputs --------------------------------- *)

\* An event payload: has = FALSE is an event sent with no payload (data is
\* undefined); an absent field of an object payload reads as undefined.
NoData == [has |-> FALSE]

\* The payloads of player_update
UpdatePayloads ==
  {NoData, [has |-> TRUE, x |-> Num(1), y |-> Num(2), score |-> Num(5)]}

\* The payloads of score_update
ScorePayloads ==
  {NoData} \cup {[has |-> TRUE, score |-> c] : c \in {Num(7), Str(1)}}

\* The payloads of chat_message
ChatPayloads ==
  {NoData} \cup {[has |-> TRUE, message |-> m] : m \in {Str(1), Num(1)}}

\* The payloads of join_room; room "" is the empty string
JoinPayloads ==
  {NoData} \cup {[has |-> TRUE, room |-> r] : r \in {"A", ""}}

\* The payloads of room_message; a room may be named after a socket id
RoomMsgPayloads ==
  {NoData, [has |-> TRUE, room |-> "A", message |-> Num(1)],
           [has |-> TRUE, room |-> "", message |-> Str(1)]} \cup
  {[has |-> TRUE, room |-> r, message |-> Str(1)] : r \in {"A", IdNames[1]}}

\* The payloads of player_action
ActionPayloads ==
  {NoData} \cup {[has |-> TRUE, action |-> a] : a \in {Undef, Str(1)}}

\* The payloads of player_update in the specification of the registry's values
XIn == {Undef, Num(1)}
YIn == {Undef, Num(2)}
ValueUpdatePayloads ==
  {NoData} \cup
  {[has |-> TRUE, x |-> a, y |-> b, score |-> c] :
     a \in XIn, b \in YIn, c \in {Undef, Num(5)}}

\* The payloads of score_update there ("1e999" in a frame parses to Infinity)
ValueScorePayloads ==
  {NoData} \cup
  {[has |-> TRUE, score |-> c] : c \in {Undef, Num(7), Str(1), Null, PosInf}}

\* The payloads of player_update in the specification of the leaderboard
LBUpdatePayloads ==
  {[has |-> TRUE, x |-> Undef, y |-> Undef, score |-> c] :
     c \in {Num(1), Num(2), Str(1), Null}}

\* The payloads of join_room and room_message in the specification of rooms
RoomJoinPayloads ==
  {NoData} \cup {[has |-> TRUE, room |-> r] : r \in {"A", "B"}}

RoomTalkPayloads ==
  {[has |-> TRUE, room |-> r, message |-> Str(1)] : r \in {"A", "B"}}

\* if (data.room): a room name is truthy unless it is the empty string
RoomTruthy(r) == r # ""

(* --------------------------- the transport ----------------------------- *)

\* Mutant of Members: the room is not looked at.
MembersAll(rm, conns, room) == conns

\* io.to(room): the connected sockets that are in the room
Members(rm, conns, room) == {s \in conns : room \in rm[s]}

\* io.emit: every connected socket
Everyone(conns) == conns

\* Mutant of Others: the sender is not left out.
OthersAll(conns, id) == conns

\* socket.broadcast: every connected socket but the sender
Others(conns, id) == conns \ {id}

\* What each client has seen first once the emissions es are delivered.
Deliver(first, es) ==
  [c \in DOMAIN first |->
     IF first[c] # "none" THEN first[c]
     ELSE LET hits == {i \in 1..Len(es) : c \in es[i].to}
          IN  IF hits = {} THEN "none"
              ELSE es[CHOOSE i \in hits : \A j \in hits : i <= j].ev]

\* The event handled: its name, the socket it came from, its payload.
Event(name, id, data) == [ev |-> name, id |-> id, data |-> data]

(* ------------------------------ actions -------------------------------- *)

Init ==
  /\ nextId = 0
  /\ open = {}
  /\ players = [k \in {} |-> Null]
  /\ order = <<>>
  /\ rooms = [c \in Ids |-> {}]
  /\ last = Event("none", "", NoData)
  /\ sent = <<>>
  /\ firstMsg = [c \in Ids |-> "none"]
  /\ held = [taken |-> FALSE]

\* Mutant of Connection: the state is broadcast before your_id is sent.
ConnectionBroadcastFirst(limit) ==
  /\ nextId < limit
  /\ LET id == IdNames[nextId + 1]
     IN  /\ nextId' = nextId + 1
         /\ open' = open \cup {id}
         /\ rooms' = [rooms EXCEPT ![id] = {id}]
         /\ players' = addPlayer(players, id)
         /\ order' = addKey(order, id)
         /\ last' = Event("connection", id, NoData)
         /\ sent' = broadcastState(players', order', Everyone(open'))
                    \o <<[ev |-> "your_id", to |-> {id}, data |-> id]>>
         /\ firstMsg' = Deliver(firstMsg, sent')
         /\ UNCHANGED held

\* io.on('connection'): the transport has connected the socket and put it
\* in the room named after its id; the handler sends your_id, adds the
\* player and broadcasts the state.
Connection(limit) ==
  /\ nextId < limit
  /\ LET id == IdNames[nextId + 1]
     IN  /\ nextId' = nextId + 1
         /\ open' = open \cup {id}
         /\ rooms' = [rooms EXCEPT ![id] = {id}]
         /\ players' = addPlayer(players, id)
         /\ order' = addKey(order, id)
         /\ last' = Event("connection", id, NoData)
         /\ sent' = <<[ev |-> "your_id", to |-> {id}, data |-> id]>>
                    \o broadcastState(players', order', Everyone(open'))
         /\ firstMsg' = Deliver(firstMsg, sent')
         /\ UNCHANGED held

\* Mutant of PlayerUpdate: the state is broadcast after the catch as well.
PlayerUpdateBroadcastAlways(id, data) ==
  /\ id \in open
  /\ last' = Event("player_update", id, data)
  /\ players' = (IF data.has THEN updatePlayer(players, id, data) ELSE players)
  /\ sent' = broadcastState(players', order, Everyone(open))
  /\ firstMsg' = Deliver(firstMsg, sent')
  /\ UNCHANGED held
  /\ UNCHANGED <<nextId, open, order, rooms>>

\* socket.on('player_update'): data.x of a missing payload throws inside
\* updatePlayer when the player exists; the handler catches it and logs.
PlayerUpdate(id, data) ==
  /\ id \in open
  /\ last' = Event("player_update", id, data)
  /\ IF data.has \/ id \notin DOMAIN players
     THEN /\ players' = (IF data.has THEN updatePlayer(players, id, data) ELSE players)
          /\ sent' = broadcastState(players', order, Everyone(open))
     ELSE /\ players' = players
          /\ sent' = <<>>
  /\ firstMsg' = Deliver(firstMsg, sent')
  /\ UNCHANGED held
  /\ UNCHANGED <<nextId, open, order, rooms>>

\* Mutant of ScoreAccepted: the type of the score is not tested.
ScoreAcceptedAnyType(data) == data.has

\* if (data && typeof data.score === 'number')
ScoreAccepted(data) == data.has /\ TypeofNumber(data.score)

\* socket.on('score_update')
ScoreUpdate(id, data) ==
  /\ id \in open
  /\ last' = Event("score_update", id, data)
  /\ IF ScoreAccepted(data)
     THEN /\ players' = updatePlayer(players, id,
                          [x |-> Undef, y |-> Undef, score |-> data.score])
          /\ sent' = broadcastState(players', order, Everyone(open))
     ELSE /\ players' = players
          /\ sent' = <<>>
  /\ firstMsg' = Deliver(firstMsg, sent')
  /\ UNCHANGED held
  /\ UNCHANGED <<nextId, open, order, rooms>>

\* Mutant of ChatMessage: the message is sent with socket.broadcast.emit.
ChatMessageOthers(id, data) ==
  /\ id \in open
  /\ last' = Event("chat_message", id, data)
  /\ sent' = IF data.has /\ TypeofString(data.message)
             THEN <<[ev |-> "chat_message", to |-> Others(open, id),
                     data |-> [id |-> id, message |-> data.message]]>>
             ELSE <<>>
  /\ firstMsg' = Deliver(firstMsg, sent')
  /\ UNCHANGED held
  /\ UNCHANGED <<nextId, open, players, order, rooms>>

\* socket.on('chat_message')
ChatMessage(id, data) ==
  /\ id \in open
  /\ last' = Event("chat_message", id, data)
  /\ sent' = IF data.has /\ TypeofString(data.message)
             THEN <<[ev |-> "chat_message", to |-> Everyone(open),
                     data |-> [id |-> id, message |-> data.message]]>>
             ELSE <<>>
  /\ firstMsg' = Deliver(firstMsg, sent')
  /\ UNCHANGED held
  /\ UNCHANGED <<nextId, open, players, order, rooms>>

\* Mutant of JoinRoom: joining a room leaves the rooms joined before.
JoinRoomEvict(id, data) ==
  /\ id \in open
  /\ last' = Event("join_room", id, data)
  /\ IF data.has /\ RoomTruthy(data.room)
     THEN /\ rooms' = [rooms EXCEPT ![id] = {id, data.room}]
          /\ players' = IF id \in DOMAIN players
                        THEN [players EXCEPT ![id].room = data.room]
                        ELSE players
          /\ sent' = <<[ev |-> "room_notification",
                        to |-> Members(rooms', open, data.room),
                        data |-> [id |-> id, room |-> data.room]]>>
     ELSE /\ rooms' = rooms
          /\ players' = players
          /\ sent' = <<>>
  /\ firstMsg' = Deliver(firstMsg, sent')
  /\ UNCHANGED held
  /\ UNCHANGED <<nextId, open, order>>

\* Mutant of JoinRoom: the room field is set but the socket joins nothing.
JoinRoomFieldOnly(id, data) ==
  /\ id \in open
  /\ last' = Event("join_room", id, data)
  /\ IF data.has /\ RoomTruthy(data.room)
     THEN /\ rooms' = rooms
          /\ players' = IF id \in DOMAIN players
                        THEN [players EXCEPT ![id].room = data.room]
                        ELSE players
          /\ sent' = <<[ev |-> "room_notification",
                        to |-> Members(rooms', open, data.room),
                        data |-> [id |-> id, room |-> data.room]]>>
     ELSE /\ rooms' = rooms
          /\ players' = players
          /\ sent' = <<>>
  /\ firstMsg' = Deliver(firstMsg, sent')
  /\ UNCHANGED held
  /\ UNCHANGED <<nextId, open, order>>

\* Mutant of JoinRoom: the room is notified before the socket joins it.
JoinRoomNotifyFirst(id, data) ==
  /\ id \in open
  /\ last' = Event("join_room", id, data)
  /\ IF data.has /\ RoomTruthy(data.room)
     THEN /\ rooms' = [rooms EXCEPT ![id] = @ \cup {data.room}]
          /\ players' = IF id \in DOMAIN players
                        THEN [players EXCEPT ![id].room = data.room]
                        ELSE players
          /\ sent' = <<[ev |-> "room_notification",
                        to |-> Members(rooms, open, data.room),
                        data |-> [id |-> id, room |-> data.room]]>>
     ELSE /\ rooms' = rooms
          /\ players' = players
          /\ sent' = <<>>
  /\ firstMsg' = Deliver(firstMsg, sent')
  /\ UNCHANGED held
  /\ UNCHANGED <<nextId, open, order>>

\* socket.on('join_room')
JoinRoom(id, data) ==
  /\ id \in open
  /\ last' = Event("join_room", id, data)
  /\ IF data.has /\ RoomTruthy(data.room)
     THEN /\ rooms' = [rooms EXCEPT ![id] = @ \cup {data.room}]
          /\ players' = IF id \in DOMAIN players
                        THEN [players EXCEPT ![id].room = data.room]
                        ELSE players
          /\ sent' = <<[ev |-> "room_notification",
                        to |-> Members(rooms', open, data.room),
                        data |-> [id |-> id, room |-> data.room]]>>
     ELSE /\ rooms' = rooms
          /\ players' = players
          /\ sent' = <<>>
  /\ firstMsg' = Deliver(firstMsg, sent')
  /\ UNCHANGED held
  /\ UNCHANGED <<nextId, open, order>>

\* socket.on('room_message')
RoomMessage(id, data) ==
  /\ id \in open
  /\ last' = Event("room_message", id, data)
  /\ sent' = IF data.has /\ RoomTruthy(data.room) /\ TypeofString(data.message)
             THEN <<[ev |-> "room_message",
                     to |-> Members(rooms, open, data.room),
                     data |-> [id |-> id, room |-> data.room,
                               message |-> data.message]]>>
             ELSE <<>>
  /\ firstMsg' = Deliver(firstMsg, sent')
  /\ UNCHANGED held
  /\ UNCHANGED <<nextId, open, players, order, rooms>>

\* socket.on('player_action'): socket.broadcast.emit
PlayerAction(id, data) ==
  /\ id \in open
  /\ last' = Event("player_action", id, data)
  /\ sent' = IF data.has /\ Truthy(data.action)
             THEN <<[ev |-> "player_action", to |-> Others(open, id),
                     data |-> [id |-> id, action |-> data.action]]>>
             ELSE <<>>
  /\ firstMsg' = Deliver(firstMsg, sent')
  /\ UNCHANGED held
  /\ UNCHANGED <<nextId, open, players, order, rooms>>

\* Mutant of Disconnect: the state is broadcast before the player is removed.
DisconnectBroadcastFirst(id) ==
  /\ id \in open
  /\ open' = open \ {id}
  /\ rooms' = [rooms EXCEPT ![id] = {}]
  /\ players' = removePlayer(players, id)
  /\ order' = removeKey(order, id)
  /\ last' = Event("disconnect", id, NoData)
  /\ sent' = broadcastState(players, order, Everyone(open'))
  /\ firstMsg' = Deliver(firstMsg, sent')
  /\ UNCHANGED held
  /\ UNCHANGED nextId

\* socket.on('disconnect'): the transport has already taken the socket out
\* of its rooms and of the connected sockets.
Disconnect(id) ==
  /\ id \in open
  /\ open' = open \ {id}
  /\ rooms' = [rooms EXCEPT ![id] = {}]
  /\ players' = removePlayer(players, id)
  /\ order' = removeKey(order, id)
  /\ last' = Event("disconnect", id, NoData)
  /\ sent' = broadcastState(players', order', Everyone(open'))
  /\ firstMsg' = Deliver(firstMsg, sent')
  /\ UNCHANGED held
  /\ UNCHANGED nextId

\* Mutant of Heartbeat: the tick goes to every socket ever accepted.
HeartbeatEveryAccepted ==
  /\ last' = Event("heartbeat", "", NoData)
  /\ sent' = <<[ev |-> "heartbeat", to |-> {IdNames[i] : i \in 1..nextId},
                data |-> Null]>>
  /\ firstMsg' = Deliver(firstMsg, sent')
  /\ UNCHANGED held
  /\ UNCHANGED <<nextId, open, players, order, rooms>>

\* setInterval(..., 30000): io.emit('heartbeat', { timestamp })
Heartbeat ==
  /\ last' = Event("heartbeat", "", NoData)
  /\ sent' = <<[ev |-> "heartbeat", to |-> Everyone(open), data |-> Null]>>
  /\ firstMsg' = Deliver(firstMsg, sent')
  /\ UNCHANGED held
  /\ UNCHANGED <<nextId, open, players, order, rooms>>

\* A caller takes gameManager.getPlayers() and keeps it: what it is given
\* is the registry as it stands at the call.
GetPlayers ==
  /\ held' = [taken |-> TRUE, at |-> getPlayers(players)]
  /\ UNCHANGED <<nextId, open, players, order, rooms, last, sent, firstMsg>>

\* What the caller reads now in the value it kept: getPlayers returned
\* this.players itself, so the value kept and the registry are one object.
HeldNow == getPlayers(players)

(* --------------------------- specifications ---------------------------- *)

\* Every event of the server, each with a valid and a malformed payload.
Next ==
  \/ Connection(MaxConns)
  \/ \E id \in open, data \in UpdatePayloads : PlayerUpdate(id, data)
  \/ \E id \in open, data \in ScorePayloads : ScoreUpdate(id, data)
  \/ \E id \in open, data \in ChatPayloads : ChatMessage(id, data)
  \/ \E id \in open, data \in JoinPayloads : JoinRoom(id, data)
  \/ \E id \in open, data \in RoomMsgPayloads : RoomMessage(id, data)
  \/ \E id \in open, data \in ActionPayloads : PlayerAction(id, data)
  \/ \E id \in open : Disconnect(id)
  \/ Heartbeat

Spec == Init /\ [][Next]_vars

\* The events that write the registry, with every combination of fields.
NextValues ==
  \/ Connection(ValueConns)
  \/ \E id \in open, data \in ValueUpdatePayloads : PlayerUpdate(id, data)
  \/ \E id \in open, data \in ValueScorePayloads : ScoreUpdate(id, data)
  \/ \E id \in open, data \in JoinPayloads : JoinRoom(id, data)
  \/ \E id \in open : Disconnect(id)

SpecValues == Init /\ [][NextValues]_vars

\* The registry under events that write it, with a caller of getPlayers.
NextSnap ==
  \/ Connection(MaxConns)
  \/ \E id \in open, data \in UpdatePayloads : PlayerUpdate(id, data)
  \/ \E id \in open, data \in JoinPayloads : JoinRoom(id, data)
  \/ \E id \in open : Disconnect(id)
  \/ GetPlayers

SpecSnap == Init /\ [][NextSnap]_vars

\* Two rooms: joining, talking to a room, leaving by disconnecting.
NextRooms ==
  \/ Connection(MaxConns)
  \/ \E id \in open, data \in RoomJoinPayloads : JoinRoom(id, data)
  \/ \E id \in open, data \in RoomTalkPayloads : RoomMessage(id, data)
  \/ \E id \in open : Disconnect(id)

SpecRooms == Init /\ [][NextRooms]_vars

\* The leaderboard over the scores that player_update writes.
NextLB ==
  \/ Connection(LBConns)
  \/ \E id \in open, data \in LBUpdatePayloads : PlayerUpdate(id, data)

SpecLB == Init /\ [][NextLB]_vars

(* ------------------------------ claims --------------------------------- *)

\* The connections that were opened and have been closed since.
Closed == {IdNames[i] : i \in 1..nextId} \ open

\* The emissions of the event handled last that carry the event name.
Emitted(name) == {sent[i] : i \in {j \in 1..Len(sent) : sent[j].ev = name}}

\* The ids listed by a leaderboard.
BoardIds(lb) == {lb[i].id : i \in 1..Len(lb)}

\* C1: between any two events the keys of the player registry are exactly
\* the connections that are open.
C1_RegistryIsOpenConnections == DOMAIN players = open

\* C1 witness: one connection has closed while another one stays open.
C1_Witness ==
  /\ last.ev = "disconnect"
  /\ Closed # {}
  /\ open # {}
  /\ DOMAIN players = open

\* C2: once a connection has disconnected no player_update or
\* leaderboard_update emitted afterwards names it, it is in no room, and the
\* disconnect itself broadcasts the registry and the leaderboard, both
\* without the connection, to the connections that remain.
C2_DisconnectCleanup ==
  /\ \A e \in Emitted("player_update") : DOMAIN e.data \cap Closed = {}
  /\ \A e \in Emitted("leaderboard_update") : BoardIds(e.data) \cap Closed = {}
  /\ \A c \in Closed : rooms[c] = {}
  /\ last.ev = "disconnect" =>
       /\ last.id \in Closed
       /\ \E e \in Emitted("player_update") : e.to = open /\ e.data = players
       /\ \E e \in Emitted("leaderboard_update") :
            e.to = open /\ BoardIds(e.data) = DOMAIN players

\* C2 witness: c1 has disconnected and c2, which stays in room A, is sent a
\* registry that holds c2 alone.
C2_Witness ==
  /\ last.ev = "disconnect"
  /\ last.id = "c1"
  /\ open = {"c2"}
  /\ \E e \in Emitted("player_update") : e.to = {"c2"} /\ DOMAIN e.data = {"c2"}
  /\ "A" \in rooms["c2"]

\* C3: a player_update with an object payload writes exactly the fields
\* among x, y, score that the payload has, and leaves the absent ones and
\* the room field as they were.
C3_PartialUpdateFrame ==
  [][(last'.ev = "player_update" /\ last'.data.has) =>
       LET id == last'.id
           d  == last'.data
       IN  /\ id \in DOMAIN players
           /\ DOMAIN players' = DOMAIN players
           /\ players'[id].x = (IF d.x = Undef THEN players[id].x ELSE d.x)
           /\ players'[id].y = (IF d.y = Undef THEN players[id].y ELSE d.y)
           /\ players'[id].score =
                (IF d.score = Undef THEN players[id].score ELSE d.score)
           /\ players'[id].room = players[id].room]_vars

\* C3 witness: after score 5 was set, player_update {x: 1} has been handled
\* for a player in room A: x is 1, the score is still 5, y is still 0.
C3_Witness ==
  /\ last.ev = "player_update"
  /\ last.data.has
  /\ last.data.x = Num(1)
  /\ last.data.y = Undef
  /\ last.data.score = Undef
  /\ players[last.id] = [x |-> Num(1), y |-> Num(0), score |-> Num(5), room |-> "A"]

\* C4: a room_message is delivered only to connected sockets that are in
\* the room it names when it is handled; with no such socket, to nobody.
C4_RoomIsolation ==
  \A e \in Emitted("room_message") :
     /\ last.ev = "room_message"
     /\ e.data.room = last.data.room
     /\ \A s \in e.to : s \in open /\ last.data.room \in rooms[s]

\* C4 witness: a message to room A reaches the one member and not the other
\* open connection.
C4_Witness ==
  /\ last.ev = "room_message"
  /\ last.data.has
  /\ last.data.room = "A"
  /\ open = {"c1", "c2"}
  /\ \E e \in Emitted("room_message") : e.to = {"c1"}

\* C5: a score_update with no payload, no score or a score that is not a
\* number changes nothing in the registry, emits nothing and leaves the
\* sender connected.
C5_MalformedScoreIgnored ==
  [][(last'.ev = "score_update" /\
        (~last'.data.has \/ ~TypeofNumber(last'.data.score))) =>
       /\ players' = players
       /\ order' = order
       /\ sent' = <<>>
       /\ open' = open
       /\ last'.id \in open']_vars

\* C5 witness: score_update {score: "abc"} was handled for a player whose
\* score is 5; nothing was emitted and the player is still there.
C5_Witness ==
  /\ last.ev = "score_update"
  /\ last.data.has
  /\ last.data.score = Str(1)
  /\ sent = <<>>
  /\ last.id \in open
  /\ players[last.id].score = Num(5)

\* C6: a score_update whose score is a number that is not finite (NaN,
\* Infinity, -Infinity) leaves the registry as it was and emits nothing.
C6_NonFiniteScoreIgnored ==
  [][(last'.ev = "score_update" /\ last'.data.has
        /\ last'.data.score.t \in {"nan", "inf"}) =>
       /\ players' = players
       /\ sent' = <<>>]_vars

\* C7: every event that changes the registry emits a player_update with the
\* whole new registry and a leaderboard_update of it to all open connections.
C7_MutationIsBroadcast ==
  [][players' # players =>
       /\ \E i \in 1..Len(sent') :
            /\ sent'[i].ev = "player_update"
            /\ sent'[i].to = open'
            /\ sent'[i].data = players'
       /\ \E i \in 1..Len(sent') :
            /\ sent'[i].ev = "leaderboard_update"
            /\ sent'[i].to = open'
            /\ BoardIds(sent'[i].data) = DOMAIN players']_vars

\* A registry score that stands for no score.
NoScore(v) == v.t \in {"undefined", "null"}

\* C8: the leaderboard has exactly one entry per registry key, carrying the
\* player's score (0 for a player with no score), with the scores never
\* increasing down the board, and deriving it again gives the same sequence.
C8_LeaderboardSorted ==
  LET lb == getLeaderboard(players, order)
  IN  /\ Len(lb) = Cardinality(DOMAIN players)
      /\ BoardIds(lb) = DOMAIN players
      /\ \A i \in 1..Len(lb) :
           lb[i].score = (IF NoScore(players[lb[i].id].score) THEN Num(0)
                          ELSE players[lb[i].id].score)
      /\ \A i, j \in 1..Len(lb) :
           (i < j /\ lb[i].score.t = "num" /\ lb[j].score.t = "num")
             => lb[i].score.v >= lb[j].score.v
      /\ \A e \in Emitted("leaderboard_update") : e.data = lb

\* C9: a connection that opens gets a registry entry with x = 0, y = 0,
\* score = 0, room = null; your_id with its id goes to it alone and is the
\* first thing it receives; the registry and the leaderboard, both with the
\* new entry, are then sent to every open connection, the new one included.
C9_ConnectionGreeting ==
  /\ \A i \in 1..nextId : firstMsg[IdNames[i]] = "your_id"
  /\ \A e \in Emitted("your_id") : last.ev = "connection" /\ e.to = {last.id}
  /\ last.ev = "connection" =>
       /\ last.id \in open
       /\ last.id \in DOMAIN players
       /\ players[last.id] =
            [x |-> Num(0), y |-> Num(0), score |-> Num(0), room |-> NullRoom]
       /\ Len(sent) = 3
       /\ sent[1] = [ev |-> "your_id", to |-> {last.id}, data |-> last.id]
       /\ sent[2].ev = "player_update"
       /\ sent[2].to = open
       /\ sent[2].data = players
       /\ sent[3].ev = "leaderboard_update"
       /\ sent[3].to = open
       /\ last.id \in BoardIds(sent[3].data)

\* C9 witness: a second connection has opened while the first is open.
C9_Witness ==
  /\ last.ev = "connection"
  /\ last.id = "c2"
  /\ open = {"c1", "c2"}
  /\ firstMsg["c2"] = "your_id"
  /\ sent[2].to = {"c1", "c2"}

C12_ChatBroadcast ==
  [][last'.ev = "chat_message" =>
       /\ players' = players
       /\ rooms' = rooms
       /\ open' = open
       /\ IF last'.data.has /\ last'.data.message.t = "str"
          THEN sent' = <<[ev |-> "chat_message", to |-> open',
                          data |-> [id |-> last'.id,
                                    message |-> last'.data.message]]>>
          ELSE sent' = <<>>]_vars

\* C12 witness: a chat message of c1 has reached c1 and c2.
C12_Witness ==
  /\ last.ev = "chat_message"
  /\ last.id = "c1"
  /\ sent # <<>>
  /\ sent[1].to = {"c1", "c2"}
  /\ sent[1].data.id = "c1"

\* C13: a heartbeat tick leaves the registry and the rooms as they were and
\* is delivered to the open connections, all of them and no closed one.
C13_HeartbeatFrame ==
  [][last'.ev = "heartbeat" =>
       /\ players' = players
       /\ order' = order
       /\ rooms' = rooms
       /\ open' = open
       /\ Len(sent') = 1
       /\ sent'[1].ev = "heartbeat"
       /\ sent'[1].to = open'
       /\ sent'[1].to \cap Closed' = {}]_vars

\* C13 witness: a tick after c1 has closed reaches c2 alone.
C13_Witness ==
  /\ last.ev = "heartbeat"
  /\ Closed = {"c1"}
  /\ open = {"c2"}
  /\ sent[1].to = {"c2"}

\* C14: what getPlayers returned stays equal to the registry as it was at
\* the call, whatever addPlayer, updatePlayer, removePlayer or join_room do
\* afterwards.
C14_SnapshotStable == held.taken => HeldNow = held.at

\* A value that is a finite number.
Finite(v) == v.t = "num"

\* C15: every registry entry has finite numbers for x, y and score, and a
\* player_update with a field that is present but not a finite number is
\* dropped: the registry stays as it was and nothing is emitted.
C15_FiniteFields ==
  [][/\ \A id \in DOMAIN players' :
          Finite(players'[id].x) /\ Finite(players'[id].y)
            /\ Finite(players'[id].score)
     /\ (last'.ev = "player_update" /\ last'.data.has
           /\ \E v \in {last'.data.x, last'.data.y, last'.data.score} :
                v # Undef /\ ~Finite(v)) =>
          (players' = players /\ sent' = <<>>)]_vars

\* C16: a fault raised while an event is handled (a player_update with no
\* payload) stays within that event: the registry, the connections and
\* the rooms are as before, nothing is emitted, the sender stays open, and
\* the server goes on from the state it had.
C16_FaultIsolated ==
  [][(last'.ev = "player_update" /\ ~last'.data.has) =>
       /\ players' = players
       /\ order' = order
       /\ open' = open
       /\ rooms' = rooms
       /\ nextId' = nextId
       /\ sent' = <<>>
       /\ last'.id \in open']_vars

\* C16 witness: c1, whose score is 7, has sent a player_update with no
\* payload while c2 is open; nothing was emitted and both are still there.
C16_Witness ==
  /\ last.ev = "player_update"
  /\ last.id = "c1"
  /\ ~last.data.has
  /\ sent = <<>>
  /\ open = {"c1", "c2"}
  /\ players["c1"].score = Num(7)

\* C17: updatePlayer and removePlayer on an id that is not in the registry
\* return the registry as it is, whatever the payload; removePlayer on an
\* id that is in it removes that entry and no other.
C17_UnknownIdNoOp ==
  /\ \A id \in Ids \ DOMAIN players :
       /\ removePlayer(players, id) = players
       /\ \A d \in ValueUpdatePayloads \cup LBUpdatePayloads :
            updatePlayer(players, id, d) = players
  /\ \A id \in DOMAIN players :
       /\ DOMAIN removePlayer(players, id) = DOMAIN players \ {id}
       /\ \A k \in DOMAIN players \ {id} :
            removePlayer(players, id)[k] = players[k]

\* C17 witness: c1 has closed and c2 is in the registry; an update and a
\* removal for c1 leave the registry with c2 alone.
C17_Witness ==
  /\ Closed = {"c1"}
  /\ DOMAIN players = {"c2"}
  /\ players["c2"].score = Num(5)
  /\ updatePlayer(players, "c1",
                  [has |-> TRUE, x |-> Num(1), y |-> Num(2), score |-> Num(5)])
       = players
  /\ removePlayer(players, "c1") = players

\* C18: joining a second room does not take the socket out of the first:
\* a join adds the room to the socket's rooms and makes it the player's
\* room field, no event of an open socket takes a room away from it, and a
\* room_message reaches every open member of the room it names, whatever
\* their room field says.
C18_SecondJoinKeepsFirst ==
  [][/\ \A c \in open \cap open' : rooms[c] \subseteq rooms'[c]
     /\ (last'.ev = "join_room" /\ last'.data.has /\ last'.data.room # "") =>
          /\ rooms'[last'.id] = rooms[last'.id] \cup {last'.data.room}
          /\ players'[last'.id].room = last'.data.room
     /\ (last'.ev = "room_message" /\ last'.data.has) =>
          /\ Len(sent') = 1
          /\ sent'[1].to = {c \in open' : last'.data.room \in rooms'[c]}]_vars

\* C18 witness: c1 joined A and then B; a room_message to A reaches c1,
\* whose room field is B.
C18_Witness ==
  /\ last.ev = "room_message"
  /\ last.data.room = "A"
  /\ "c1" \in open
  /\ {"A", "B"} \subseteq rooms["c1"]
  /\ players["c1"].room = "B"
  /\ "c1" \in sent[1].to

\* C19: an event from a connection changes at most that connection's
\* registry entry and rooms: every other connection keeps its entry (or the
\* lack of one) and its rooms.
C19_OthersUntouched ==
  [][last'.ev \in {"player_update", "score_update", "join_room", "chat_message",
                   "room_message", "player_action", "disconnect"} =>
       \A o \in Ids \ {last'.id} :
          /\ (o \in DOMAIN players') = (o \in DOMAIN players)
          /\ o \in DOMAIN players => players'[o] = players[o]
          /\ rooms'[o] = rooms[o]
          /\ (o \in open') = (o \in open)]_vars

\* C19 witness: c1 has set its fields with a player_update while c2, in
\* room A, keeps its defaults.
C19_Witness ==
  /\ last.ev = "player_update"
  /\ last.id = "c1"
  /\ last.data.has
  /\ players["c1"].x = Num(1)
  /\ open = {"c1", "c2"}
  /\ players["c2"] = [x |-> Num(0), y |-> Num(0), score |-> Num(0), room |-> "A"]

\* C20: a registry entry whose room field is not null belongs to an open
\* connection that is in that room; an entry starts with a null room, only
\* an accepted join_room of its own connection changes the field, and it
\* sets it to the room joined, never back to null.
C20_RoomFieldIsMembership ==
  [][/\ \A c \in DOMAIN players' :
          players'[c].room # NullRoom =>
             c \in open' /\ players'[c].room \in rooms'[c]
     /\ \A c \in DOMAIN players' \ DOMAIN players : players'[c].room = NullRoom
     /\ \A c \in DOMAIN players' \cap DOMAIN players :
          players'[c].room # players[c].room =>
             /\ last'.ev = "join_room"
             /\ last'.id = c
             /\ last'.data.has
             /\ players'[c].room = last'.data.room
     /\ (last'.ev = "join_room" /\ last'.data.has /\ last'.data.room # "") =>
          players'[last'.id].room # NullRoom]_vars

\* C20 witness: c1 has just joined B after A while c2 has joined nothing.
C20_Witness ==
  /\ last.ev = "join_room"
  /\ last.id = "c1"
  /\ players["c1"].room = "B"
  /\ {"A", "B"} \subseteq rooms["c1"]
  /\ "c2" \in open
  /\ players["c2"].room = NullRoom

====
